---- MODULE Spec2Model ----
(***************************************************************************)
(* A model of check_secrets.py: the pattern registry, the per-line        *)
(* matching and masking loop of scan_file, the .gitignore loader, the     *)
(* path matcher is_ignored, the os.walk loop of main and main's exit      *)
(* policy.                                                                *)
(*                                                                        *)
(* Text is modelled as sequences of one-character strings, so that the    *)
(* regular expressions and the glob matcher work on characters.           *)
(***************************************************************************)
EXTENDS Integers, Sequences, FiniteSets, TLC

VARIABLES
    \* ---- line scanner (the body of the loop of scan_file) ----
    original_line,   \* the raw line read from the file
    masked_line,     \* masked_line after the pattern loop
    found_types,     \* found_types after the pattern loop
    rescan_types,    \* found_types of a second pass over masked_line
    rescan_line,     \* masked_line of that second pass
    lpc,             \* "idle" | "read" | "scanned" | "rescanned"
    \* ---- main() ----
    fs,              \* the file system main() runs against
    force,           \* args.force
    pc,              \* position in main()
    gitignore_patterns,
    walk_stack,      \* directories os.walk still has to visit (top first)
    cur_root,        \* the directory of the current os.walk triple
    cur_files,       \* files of the current triple not yet looked at
    visited,         \* ghost: directories os.walk has yielded
    opened,          \* ghost: paths handed to scan_file
    all_findings,    \* all_findings
    found_secrets,   \* found_secrets
    out,             \* what was printed, as a sequence of tags
    prompted,        \* ghost: input() was called
    choice_in,       \* ghost: what input() read: [eof, text]
    stdin_tty,       \* sys.stdin.isatty()
    exit_code        \* -1 while running, else the process's exit status

lvars == <<original_line, masked_line, found_types, rescan_types, rescan_line, lpc>>
mvars == <<fs, force, pc, gitignore_patterns, walk_stack, cur_root, cur_files,
           visited, opened, all_findings, found_secrets, out, prompted,
           choice_in, stdin_tty, exit_code>>
vars == <<lvars, mvars>>

(***************************************************************************)
(* Characters and strings                                                 *)
(***************************************************************************)
LowerSeq == <<"a","b","c","d","e","f","g","h","i","j","k","l","m",
              "n","o","p","q","r","s","t","u","v","w","x","y","z">>
UpperSeq == <<"A","B","C","D","E","F","G","H","I","J","K","L","M",
              "N","O","P","Q","R","S","T","U","V","W","X","Y","Z">>
DigitSeq == <<"0","1","2","3","4","5","6","7","8","9">>

Range(f) == {f[i] : i \in DOMAIN f}
LowerCh == Range(LowerSeq)
UpperCh == Range(UpperSeq)
DigitCh == Range(DigitSeq)

\* str.lower() on one character
LowerChar(c) ==
    IF c \in UpperCh THEN LowerSeq[CHOOSE i \in 1..26 : UpperSeq[i] = c] ELSE c

\* str.lower()
ToLower(s) == [i \in 1..Len(s) |-> LowerChar(s[i])]

\* the characters str.strip() removes and \s matches
WS == {" ", "\t"}

\* n copies of the character c
Rep(c, n) == [i \in 1..n |-> c]

\* s[a..b), a slice by 1-based positions a (inclusive) and b (exclusive)
Slice(s, a, b) == IF b <= a THEN <<>> ELSE SubSeq(s, a, b - 1)

RECURSIVE LStrip(_)
LStrip(s) == IF s # <<>> /\ Head(s) \in WS THEN LStrip(Tail(s)) ELSE s

RECURSIVE RStrip(_)
RStrip(s) ==
    IF s # <<>> /\ s[Len(s)] \in WS THEN RStrip(SubSeq(s, 1, Len(s) - 1)) ELSE s

\* str.strip()
Strip(s) == RStrip(LStrip(s))

\* lit occurs in s at position i
LitAt(s, i, lit) ==
    /\ i >= 1
    /\ i + Len(lit) - 1 <= Len(s)
    /\ \A k \in 1..Len(lit) : s[i + k - 1] = lit[k]

\* lit occurs in s at position i, ignoring case (re.IGNORECASE)
LitAtCI(s, i, lit) ==
    /\ i >= 1
    /\ i + Len(lit) - 1 <= Len(s)
    /\ \A k \in 1..Len(lit) : LowerChar(s[i + k - 1]) = LowerChar(lit[k])

\* t is a substring of s (Python's `t in s`)
Contains(s, t) == \E i \in 1..(Len(s) - Len(t) + 1) : LitAt(s, i, t)

\* the position after the longest run of characters of C that starts at i
RECURSIVE RunEnd(_, _, _)
RunEnd(s, i, C) ==
    IF i <= Len(s) /\ s[i] \in C THEN RunEnd(s, i + 1, C) ELSE i

Min(a, b) == IF a <= b THEN a ELSE b

(***************************************************************************)
(* SECRET_PATTERNS: the regular expressions and their replacements        *)
(***************************************************************************)
QuoteCh  == {"'", "\""}
AlnumCh  == LowerCh \cup UpperCh \cup DigitCh
KeyCh    == AlnumCh \cup {"-", "_"}          \* [a-zA-Z0-9\-_]
UpDigCh  == UpperCh \cup DigitCh             \* [0-9A-Z]
B64Ch    == AlnumCh \cup {"/", "+", "="}     \* [A-Za-z0-9/+=]

ApiKeyMinLen   == 20     \* {20,}
PasswordMinLen == 8      \* {8,}
GitHubLen      == 36     \* {36}
AwsAccessLen   == 16     \* {16}
AwsSecretLen   == 40     \* {40}

S_api_key  == <<"a","p","i","_","k","e","y">>
S_password == <<"p","a","s","s","w","o","r","d">>
S_ghp      == <<"g","h","p","_">>
S_akia     == <<"A","K","I","A">>
S_begin    == <<"-","-","-","-","-","B","E","G","I","N"," ">>
S_privkey  == <<" ","P","R","I","V","A","T","E"," ","K","E","Y","-","-","-","-","-">>

Stars == <<"*","*","*">>
S_REDACTED == <<"R","E","D","A","C","T","E","D">>
\* "***REDACTED***"
Redacted == Stars \o S_REDACTED \o Stars
\* "***REDACTED PRIVATE KEY***"
RedactedPrivateKey ==
    Stars \o S_REDACTED \o <<" ","P","R","I","V","A","T","E"," ","K","E","Y">> \o Stars
\* "***REDACTED GITHUB TOKEN***"
RedactedGitHub ==
    Stars \o S_REDACTED \o <<" ","G","I","T","H","U","B"," ","T","O","K","E","N">> \o Stars
\* "***REDACTED AWS ACCESS KEY***"
RedactedAwsAccess ==
    Stars \o S_REDACTED
          \o <<" ","A","W","S"," ","A","C","C","E","S","S"," ","K","E","Y">> \o Stars
\* "***REDACTED AWS SECRET KEY***"
RedactedAwsSecret ==
    Stars \o S_REDACTED
          \o <<" ","A","W","S"," ","S","E","C","R","E","T"," ","K","E","Y">> \o Stars

\* A match of a pattern at one position: where it ends (exclusive), the text
\* the replacement template puts in its place, and the text that was the
\* secret (group "secret", or the whole match where there is no group).
NoMatch == [ok |-> FALSE, end |-> 0, rep |-> <<>>, secret |-> <<>>]
AMatch(e, r, x) == [ok |-> TRUE, end |-> e, rep |-> r, secret |-> x]

\* ['"]? at position i: the position after it
OptQuote(s, i) == IF i <= Len(s) /\ s[i] \in QuoteCh THEN i + 1 ELSE i

\* ['"]?<key>['"]?\s*[:=] at position i, ignoring case: the position after
\* the [:=], or 0 when it does not match there
AssignEnd(s, i, key) ==
    LET a == OptQuote(s, i)
        c == OptQuote(s, a + Len(key))
        d == RunEnd(s, c, WS)
    IN  IF LitAtCI(s, a, key) /\ d <= Len(s) /\ s[d] \in {":", "="}
        THEN d + 1 ELSE 0

\* (['"]?api_key['"]?\s*[:=]\s*['"]?)(?P<secret>[a-zA-Z0-9\-_]{20,})(['"]?)
\* replaced by \1***REDACTED***\3
MatchApiKey(s, i) ==
    LET e == AssignEnd(s, i, S_api_key)
        g == OptQuote(s, RunEnd(s, e, WS))
        h == RunEnd(s, g, KeyCh)
        z == OptQuote(s, h)
    IN  IF e # 0 /\ h - g >= ApiKeyMinLen
        THEN AMatch(z, Slice(s, i, g) \o Redacted \o Slice(s, h, z), Slice(s, g, h))
        ELSE NoMatch

\* (['"]?password['"]?\s*[:=]\s*['"]?)(?P<secret>.{8,})(['"]?)
\* replaced by \1***REDACTED***\3.  The greedy .{8,} runs to the end of the
\* line; when fewer than 8 characters follow the optional quote, the regex
\* engine backtracks and gives the quote, then the blanks, back to the secret.
MatchPassword(s, i) ==
    LET e == AssignEnd(s, i, S_password)
        n == Len(s)
        g == Min(OptQuote(s, RunEnd(s, e, WS)), n - PasswordMinLen + 1)
    IN  IF e # 0 /\ n - e + 1 >= PasswordMinLen
        THEN AMatch(n + 1, Slice(s, i, g) \o Redacted, Slice(s, g, n + 1))
        ELSE NoMatch

\* -----BEGIN [A-Z]+ PRIVATE KEY-----
MatchPrivateKey(s, i) ==
    LET j == i + Len(S_begin)
        k == RunEnd(s, j, UpperCh)
        z == k + Len(S_privkey)
    IN  IF LitAt(s, i, S_begin) /\ k > j /\ LitAt(s, k, S_privkey)
        THEN AMatch(z, RedactedPrivateKey, Slice(s, i, z))
        ELSE NoMatch

\* ghp_[a-zA-Z0-9]{36}
MatchGitHub(s, i) ==
    LET j == i + Len(S_ghp)
        z == j + GitHubLen
    IN  IF LitAt(s, i, S_ghp) /\ RunEnd(s, j, AlnumCh) >= z
        THEN AMatch(z, RedactedGitHub, Slice(s, i, z))
        ELSE NoMatch

\* AKIA[0-9A-Z]{16}
MatchAwsAccess(s, i) ==
    LET j == i + Len(S_akia)
        z == j + AwsAccessLen
    IN  IF LitAt(s, i, S_akia) /\ RunEnd(s, j, UpDigCh) >= z
        THEN AMatch(z, RedactedAwsAccess, Slice(s, i, z))
        ELSE NoMatch

\* (?<![A-Za-z0-9/+=])[A-Za-z0-9/+=]{40}(?![A-Za-z0-9/+=])
MatchAwsSecret(s, i) ==
    LET z == i + AwsSecretLen
    IN  IF /\ i <= Len(s)
           /\ (i = 1 \/ s[i - 1] \notin B64Ch)
           /\ RunEnd(s, i, B64Ch) = z
        THEN AMatch(z, RedactedAwsSecret, Slice(s, i, z))
        ELSE NoMatch

\* the keys of SECRET_PATTERNS, in definition (= iteration) order
SECRET_PATTERNS ==
    <<"API Key", "Password", "Private Key", "GitHub Token",
      "AWS Access Key", "AWS Secret Key">>

\* SECRET_PATTERNS[kind] matched at position i of s
MatchAt(kind, s, i) ==
    CASE kind = "API Key"        -> MatchApiKey(s, i)
      [] kind = "Password"       -> MatchPassword(s, i)
      [] kind = "Private Key"    -> MatchPrivateKey(s, i)
      [] kind = "GitHub Token"   -> MatchGitHub(s, i)
      [] kind = "AWS Access Key" -> MatchAwsAccess(s, i)
      [] kind = "AWS Secret Key" -> MatchAwsSecret(s, i)

\* pattern.search(s)
Search(kind, s) == \E i \in 1..Len(s) : MatchAt(kind, s, i).ok

\* pattern.sub(replacement, s): the non-overlapping matches, leftmost first
RECURSIVE SubFrom(_, _, _)
SubFrom(kind, s, i) ==
    IF i > Len(s) THEN <<>>
    ELSE LET m == MatchAt(kind, s, i)
         IN  IF m.ok THEN m.rep \o SubFrom(kind, s, m.end)
             ELSE <<s[i]>> \o SubFrom(kind, s, i + 1)

Sub(kind, s) == SubFrom(kind, s, 1)

\* the secrets pattern.sub replaces in s: the captured text of each match
RECURSIVE CapturedFrom(_, _, _)
CapturedFrom(kind, s, i) ==
    IF i > Len(s) THEN {}
    ELSE LET m == MatchAt(kind, s, i)
         IN  IF m.ok THEN {m.secret} \cup CapturedFrom(kind, s, m.end)
             ELSE CapturedFrom(kind, s, i + 1)

(***************************************************************************)
(* scan_file: the pattern loop over one line                              *)
(***************************************************************************)
\* The loop "for secret_type, (pattern, replacement) in SECRET_PATTERNS.items()"
\* from pattern number k on, with the loop's variables as they stand.
RECURSIVE PatternLoop(_, _, _)
PatternLoop(k, masked, types) ==
    IF k > Len(SECRET_PATTERNS) THEN [types |-> types, masked |-> masked]
    ELSE LET kind == SECRET_PATTERNS[k]
         IN  IF Search(kind, masked)
             THEN PatternLoop(k + 1, Sub(kind, masked), Append(types, kind))
             ELSE PatternLoop(k + 1, masked, types)

\* one iteration of "for i, line in enumerate(f, 1)" up to the test of
\* found_types: the kinds found and the masked line
ScanLine(line) == PatternLoop(1, Strip(line), <<>>)

(***************************************************************************)
(* The lines the scanner is run on: up to MaxSegs pieces, each one of     *)
(* Segments, written one after the other.                                 *)
(***************************************************************************)
MaxSegs == 3

Segments ==
    { S_password \o <<" ","="," ","\"">>,              \* password = "
      S_api_key \o <<"=">>,                            \* api_key=
      <<"A","P","I","_","K","E","Y",":"," ","'">>,     \* API_KEY: '
      S_ghp \o Rep("a", GitHubLen),                    \* a GitHub token
      S_akia \o Rep("A", AwsAccessLen),                \* an AWS access key id
      Rep("x", AwsSecretLen),                          \* 40 base64 characters
      Rep("B", ApiKeyMinLen),                          \* 20 key characters
      <<"h","u","n","t","e","r","2","!">>,             \* 8 characters
      S_begin \o <<"R","S","A">> \o S_privkey,         \* a PEM header
      <<"\"">>, <<" ">>, <<"z">> }

RECURSIVE LinesOf(_)
LinesOf(n) ==
    IF n = 0 THEN {<<>>}
    ELSE LET shorter == LinesOf(n - 1)
         IN  shorter \cup {l \o g : l \in shorter, g \in Segments}

Lines == LinesOf(MaxSegs)

(***************************************************************************)
(* Paths.  A path is the sequence of its names below "/": /w/build/s.txt  *)
(* is <<w, build, s.txt>>, each name a sequence of characters.            *)
(***************************************************************************)
N_w       == <<"w">>
N_build   == <<"b","u","i","l","d">>
N_builder == <<"b","u","i","l","d","e","r">>
N_s_txt   == <<"s",".","t","x","t">>
N_pipe    == <<"p","i","p","e">>
N_opt     == <<"o","p","t">>
N_script  == <<"c","h","e","c","k","_","s","e","c","r","e","t","s",".","p","y">>
N_gitignore == <<".","g","i","t","i","g","n","o","r","e">>

\* PurePath.parts of an absolute path: the anchor "/" and then the names
PathParts(path) == <<<<"/">>>> \o path

\* the text of a pattern cut at every "/"
RECURSIVE SplitSlash(_, _)
SplitSlash(s, cur) ==
    IF s = <<>> THEN <<cur>>
    ELSE IF Head(s) = "/" THEN <<cur>> \o SplitSlash(Tail(s), <<>>)
    ELSE SplitSlash(Tail(s), Append(cur, Head(s)))

RECURSIVE DropEmptyAndDot(_)
DropEmptyAndDot(ps) ==
    IF ps = <<>> THEN <<>>
    ELSE IF Head(ps) = <<>> \/ Head(ps) = <<".">> THEN DropEmptyAndDot(Tail(ps))
    ELSE <<Head(ps)>> \o DropEmptyAndDot(Tail(ps))

\* _flavour.parse_parts((pattern,)): root is "/" for a pattern that starts
\* with "/", and the parts are the anchor (if any) and the names, with empty
\* names and "." dropped
PatternRoot(pattern) == pattern # <<>> /\ Head(pattern) = "/"
PatternParts(pattern) ==
    (IF PatternRoot(pattern) THEN <<<<"/">>>> ELSE <<>>)
        \o DropEmptyAndDot(SplitSlash(pattern, <<>>))

\* fnmatch.fnmatchcase(name, pat) for patterns of literal characters, "*"
\* and "?" (the rules of the model hold no "[")
RECURSIVE FnMatchCase(_, _)
FnMatchCase(name, pat) ==
    IF pat = <<>> THEN name = <<>>
    ELSE IF Head(pat) = "*"
         THEN \/ FnMatchCase(name, Tail(pat))
              \/ name # <<>> /\ FnMatchCase(Tail(name), pat)
    ELSE /\ name # <<>>
         /\ Head(pat) = "?" \/ Head(pat) = Head(name)
         /\ FnMatchCase(Tail(name), Tail(pat))

\* the last n parts of ps agree with the last n patterns of pats
TailsMatch(ps, pats, n) ==
    \A k \in 0..(n - 1) : FnMatchCase(ps[Len(ps) - k], pats[Len(pats) - k])

\* PurePath.match raises ValueError("empty pattern")
MatchRaises(pattern) == PatternParts(pattern) = <<>>

\* PurePath.match(pattern), for a pattern it does not raise on
PathMatch(path, pattern) ==
    LET parts == PathParts(path)
        pat   == PatternParts(pattern)
    IN  IF PatternRoot(pattern)
        THEN /\ Len(pat) = Len(parts)
             /\ TailsMatch(parts, Tail(pat), Len(pat) - 1)
        ELSE /\ Len(pat) <= Len(parts)
             /\ TailsMatch(parts, pat, Len(pat))

\* is_ignored(path, gitignore_patterns): a pattern that raises is passed over
is_ignored(path, patterns) ==
    \E k \in 1..Len(patterns) :
        /\ ~MatchRaises(patterns[k])
        /\ PathMatch(path, patterns[k])

(***************************************************************************)
(* get_gitignore_patterns                                                 *)
(***************************************************************************)
\* the loop over the lines of .gitignore
RECURSIVE ParseGitignore(_)
ParseGitignore(lines) ==
    IF lines = <<>> THEN <<>>
    ELSE LET line == Strip(Head(lines))
             rest == ParseGitignore(Tail(lines))
         IN  IF line = <<>> \/ Head(line) = "#" THEN rest
             ELSE IF line[Len(line)] = "/"
                  THEN <<line \o <<"*","*">>, SubSeq(line, 1, Len(line) - 1)>> \o rest
             ELSE <<line>> \o rest

(***************************************************************************)
(* The file system main() runs against.                                   *)
(*   root       scan_dir, resolved                                        *)
(*   levels     levels[k] is the set of directory names found in every    *)
(*              directory k-1 levels below root                           *)
(*   s_content  what the files named s.txt hold (a key of FileContent)    *)
(*   script_dir the directory check_secrets.py lies in                    *)
(*   gitignore  the .gitignore of root (a key of GitignoreFile)           *)
(***************************************************************************)
MaxDepth == 2

DirNames == {N_build, N_builder}
DirOrder == <<N_build, N_builder>>      \* the order os.scandir lists them in

Roots == {<<N_w>>, <<N_w, N_build>>}

\* a clean line, and a line holding a GitHub token
CleanLine  == <<"x"," ","=", " ", "1">>
SecretLine == <<"t","=">> \o S_ghp \o Rep("a", GitHubLen)

\* A file: whether it is a regular file, whether open() succeeds, its lines,
\* and how many of them the text decoder hands out before it raises
\* UnicodeDecodeError (the file is decoded a buffer at a time, so lines of
\* the buffers before the bad one are handed out); -1 when all bytes decode.
File(reg, op, ls, bad) == [regular |-> reg, openable |-> op, lines |-> ls, good_lines |-> bad]

FileContent(kind) ==
    CASE kind = "clean"      -> File(TRUE, TRUE, <<CleanLine, CleanLine>>, -1)
      [] kind = "secret"     -> File(TRUE, TRUE, <<CleanLine, SecretLine>>, -1)
      [] kind = "unopenable" -> File(TRUE, FALSE, <<SecretLine>>, -1)
      [] kind = "bad_first"  -> File(TRUE, TRUE, <<SecretLine, CleanLine>>, 0)
      [] kind = "bad_later"  -> File(TRUE, TRUE, <<SecretLine, CleanLine>>, 1)
      [] kind = "fifo"       -> File(FALSE, TRUE, <<>>, -1)

SContents == {"clean", "secret", "unopenable", "bad_first", "bad_later"}

\* .gitignore: absent, present but open() or the decoder raises, or its lines
GitignoreStates == {"missing", "unreadable", "build", "comments", "dot"}

GitignoreLines(g) ==
    CASE g = "build"    -> << N_build \o <<"/">> >>                       \* build/
      [] g = "comments" -> << <<"#"," ","x">>, <<" ">>,
                              <<" ","*",".","t","x","t"," ">> >>          \* *.txt
      [] g = "dot"      -> << <<".">>,
                              N_builder \o <<"/">> \o N_s_txt >>          \* builder/s.txt
      [] OTHER          -> <<>>

GitignoreExists(f)   == f.gitignore # "missing"
GitignoreReadable(f) == f.gitignore # "unreadable"

\* the directories of the tree, as paths
IsDir(f, path) ==
    LET n == Len(f.root)
    IN  /\ Len(path) >= n
        /\ SubSeq(path, 1, n) = f.root
        /\ Len(path) - n <= Len(f.levels)
        /\ \A k \in 1..(Len(path) - n) : path[n + k] \in f.levels[k]

\* os.scandir(dir): the names of its subdirectories, in listing order
SubdirNames(f, dir) ==
    LET k == Len(dir) - Len(f.root) + 1
    IN  IF k > Len(f.levels) THEN <<>>
        ELSE SelectSeq(DirOrder, LAMBDA d : d \in f.levels[k])

\* os.scandir(dir): the names of its other entries, in listing order
FileNames(f, dir) ==
    (IF dir = f.root /\ GitignoreExists(f) THEN <<N_gitignore>> ELSE <<>>)
    \o <<N_s_txt>>
    \o (IF \E i \in 1..Len(SubdirNames(f, dir)) : SubdirNames(f, dir)[i] = N_build
        THEN <<>> ELSE <<N_build>>)
    \o (IF dir = f.script_dir THEN <<N_script>> ELSE <<>>)
    \o <<N_pipe>>

\* what the file at path holds
FileAt(f, path) ==
    LET name == path[Len(path)]
    IN  CASE name = N_s_txt     -> FileContent(f.s_content)
          [] name = N_build     -> FileContent("secret")
          [] name = N_script    -> FileContent("secret")
          [] name = N_pipe      -> FileContent("fifo")
          [] name = N_gitignore -> File(TRUE, TRUE, GitignoreLines(f.gitignore), -1)

\* script_path = Path(__file__).resolve()
ScriptPath(f) == Append(f.script_dir, N_script)

\* the trees of depth at most n: below a level with no directory there is none
RECURSIVE LevelSeqs(_)
LevelSeqs(n) ==
    IF n = 0 THEN {<<>>}
    ELSE {<<>>} \cup
         {<<top>> \o rest : top \in (SUBSET DirNames) \ {{}}, rest \in LevelSeqs(n - 1)}

FileSystems ==
    {f \in [root : Roots, levels : LevelSeqs(MaxDepth), s_content : SContents,
            script_dir : {<<N_opt>>} \cup {r \o t : r \in Roots, t \in {<<>>, <<N_builder>>}},
            gitignore : GitignoreStates] :
        \/ f.script_dir = <<N_opt>>
        \/ f.script_dir \in {f.root, Append(f.root, N_builder)} /\ IsDir(f, f.script_dir)}

(***************************************************************************)
(* scan_file                                                              *)
(***************************************************************************)
\* the findings of lines i..n of the file, as (line number, kinds, masked line)
RECURSIVE FindingsFrom(_, _, _)
FindingsFrom(lines, i, n) ==
    IF i > n THEN <<>>
    ELSE LET r == ScanLine(lines[i])
         IN  (IF r.types # <<>> THEN <<[line_number |-> i, kinds |-> r.types,
                                        masked_line |-> r.masked]>>
              ELSE <<>>) \o FindingsFrom(lines, i + 1, n)

\* How many lines the loop "for i, line in enumerate(f, 1)" runs over before
\* it ends or UnicodeDecodeError is raised.
LinesRead(file) ==
    IF file.good_lines >= 0 THEN file.good_lines ELSE Len(file.lines)

\* scan_file(file_path): IOError from open() leaves findings empty; a
\* UnicodeDecodeError ends the loop, and `return findings` returns what the
\* loop had appended by then.
scan_file(file) ==
    IF ~file.openable THEN <<>>
    ELSE FindingsFrom(file.lines, 1, LinesRead(file))

\* every file of every file system of the model, and scan_file of each (a table,
\* so that a file met again in another directory is not scanned anew)
AllFiles ==
    {FileContent(k) : k \in SContents \cup {"fifo"}}
        \cup {File(TRUE, TRUE, GitignoreLines(g), -1) : g \in GitignoreStates}
ScanResults == [file \in AllFiles |-> scan_file(file)]

(***************************************************************************)
(* main()                                                                 *)
(***************************************************************************)
NoInput == [eof |-> FALSE, text |-> <<>>]

\* what the user may type at the prompt (input() strips the newline)
Inputs == { <<"y">>, <<"Y">>, <<" ","y"," ">>, <<"y","e","s">>, <<"n">>, <<>> }

\* the line scanner is not running
LineIdle ==
    /\ original_line = <<>> /\ masked_line = <<>> /\ found_types = <<>>
    /\ rescan_types = <<>> /\ rescan_line = <<>> /\ lpc = "idle"

Init ==
    /\ LineIdle
    /\ fs \in FileSystems
    /\ force \in BOOLEAN
    /\ pc = "start"
    /\ gitignore_patterns = <<>>
    /\ walk_stack = <<>>
    /\ cur_root = <<>>
    /\ cur_files = <<>>
    /\ visited = {}
    /\ opened = {}
    /\ all_findings = <<>>
    /\ found_secrets = FALSE
    /\ out = <<>>
    /\ prompted = FALSE
    /\ choice_in = NoInput
    /\ stdin_tty \in BOOLEAN
    /\ exit_code = -1

\* the process ends: sys.exit(code), or an uncaught exception (status 1)
Exit(code, printed) ==
    /\ pc' = "done"
    /\ exit_code' = code
    /\ out' = out \o printed

\* lines 116-122: get_gitignore_patterns returns, and the walk starts at scan_dir
LoadGitignore ==
    /\ pc = "start"
    /\ ~GitignoreExists(fs) \/ GitignoreReadable(fs)
    /\ gitignore_patterns' =
           IF GitignoreExists(fs) THEN ParseGitignore(GitignoreLines(fs.gitignore))
           ELSE <<>>
    /\ out' = Append(out, "scanning")
    /\ walk_stack' = <<fs.root>>
    /\ pc' = "walk"
    /\ UNCHANGED <<lvars, fs, force, cur_root, cur_files, visited, opened,
                   all_findings, found_secrets, prompted, choice_in, stdin_tty, exit_code>>

\* lines 56-57: .gitignore exists, and open() or the decoder raises; nothing
\* in get_gitignore_patterns or main catches it
LoadGitignoreRaises ==
    /\ pc = "start"
    /\ GitignoreExists(fs) /\ ~GitignoreReadable(fs)
    /\ Exit(1, <<"traceback">>)
    /\ UNCHANGED <<lvars, fs, force, gitignore_patterns, walk_stack, cur_root,
                   cur_files, visited, opened, all_findings, found_secrets,
                   prompted, choice_in, stdin_tty>>

\* lines 124-126: os.walk yields the next directory, and main prunes its dirs
WalkDir ==
    /\ pc = "walk" /\ cur_files = <<>> /\ walk_stack # <<>>
    /\ LET root == Head(walk_stack)
           dirs == SelectSeq(SubdirNames(fs, root),
                             LAMBDA d : ~is_ignored(Append(root, d), gitignore_patterns))
       IN  /\ cur_root' = root
           /\ cur_files' = FileNames(fs, root)
           /\ visited' = visited \cup {root}
           /\ walk_stack' = [k \in 1..Len(dirs) |-> Append(root, dirs[k])]
                               \o Tail(walk_stack)
    /\ UNCHANGED <<lvars, fs, force, pc, gitignore_patterns, opened, all_findings,
                   found_secrets, out, prompted, choice_in, stdin_tty, exit_code>>

\* file_path = Path(root) / file
FilePath == Append(cur_root, Head(cur_files))

\* a slip: script_path = Path(__file__), left relative and unresolved, which
\* no path of the walk equals
IsScriptUnresolved(f, file_path) == file_path = <<N_script>>

\* line 132: file_path == script_path
IsScript(f, file_path) == file_path = ScriptPath(f)

\* lines 132-133: the scanner script itself is passed over
SkipScript ==
    /\ pc = "walk" /\ cur_files # <<>>
    /\ IsScript(fs, FilePath)
    /\ cur_files' = Tail(cur_files)
    /\ UNCHANGED <<lvars, fs, force, pc, gitignore_patterns, walk_stack, cur_root,
                   visited, opened, all_findings, found_secrets, out, prompted,
                   choice_in, stdin_tty, exit_code>>

\* lines 135-136: an ignored path, or one that is no regular file, is passed over
SkipIgnored ==
    /\ pc = "walk" /\ cur_files # <<>>
    /\ ~IsScript(fs, FilePath)
    /\ is_ignored(FilePath, gitignore_patterns) \/ ~FileAt(fs, FilePath).regular
    /\ cur_files' = Tail(cur_files)
    /\ UNCHANGED <<lvars, fs, force, pc, gitignore_patterns, walk_stack, cur_root,
                   visited, opened, all_findings, found_secrets, out, prompted,
                   choice_in, stdin_tty, exit_code>>

\* lines 138-141: the file is scanned, and kept if it has findings
ScanFile ==
    /\ pc = "walk" /\ cur_files # <<>>
    /\ ~IsScript(fs, FilePath)
    /\ ~is_ignored(FilePath, gitignore_patterns)
    /\ FileAt(fs, FilePath).regular
    /\ LET findings == ScanResults[FileAt(fs, FilePath)]
       IN  /\ opened' = opened \cup {FilePath}
           /\ found_secrets' = (found_secrets \/ findings # <<>>)
           /\ all_findings' =
                  IF findings # <<>>
                  THEN Append(all_findings, [file_path |-> FilePath, findings |-> findings])
                  ELSE all_findings
    /\ cur_files' = Tail(cur_files)
    /\ UNCHANGED <<lvars, fs, force, pc, gitignore_patterns, walk_stack, cur_root,
                   visited, out, prompted, choice_in, stdin_tty, exit_code>>

\* os.walk is exhausted
WalkOver == pc = "walk" /\ cur_files = <<>> /\ walk_stack = <<>>

\* lines 162-164
NoSecrets ==
    /\ WalkOver /\ ~found_secrets
    /\ Exit(0, <<"no_secrets">>)
    /\ UNCHANGED <<lvars, fs, force, gitignore_patterns, walk_stack, cur_root,
                   cur_files, visited, opened, all_findings, found_secrets,
                   prompted, choice_in, stdin_tty>>

\* lines 143-151: the report, then sys.exit(0) under --force
ForceExit ==
    /\ WalkOver /\ found_secrets /\ force
    /\ Exit(0, <<"report">>)
    /\ UNCHANGED <<lvars, fs, force, gitignore_patterns, walk_stack, cur_root,
                   cur_files, visited, opened, all_findings, found_secrets,
                   prompted, choice_in, stdin_tty>>

\* a slip: the prompt without the test of sys.stdin.isatty()
PromptWithoutTtyTest ==
    /\ WalkOver /\ found_secrets /\ ~force
    /\ prompted' = TRUE
    /\ out' = out \o <<"report", "prompt">>
    /\ pc' = "input"
    /\ UNCHANGED <<lvars, fs, force, gitignore_patterns, walk_stack, cur_root,
                   cur_files, visited, opened, all_findings, found_secrets,
                   choice_in, stdin_tty, exit_code>>

\* lines 143-155: the report, then input() writes the prompt and blocks
Prompt ==
    /\ WalkOver /\ found_secrets /\ ~force
    /\ stdin_tty
    /\ prompted' = TRUE
    /\ out' = out \o <<"report", "prompt">>
    /\ pc' = "input"
    /\ UNCHANGED <<lvars, fs, force, gitignore_patterns, walk_stack, cur_root,
                   cur_files, visited, opened, all_findings, found_secrets,
                   choice_in, stdin_tty, exit_code>>

\* lines 143-161 with sys.stdin.isatty() false: the report, then the abort notice
AbortNoTty ==
    /\ WalkOver /\ found_secrets /\ ~force
    /\ ~stdin_tty
    /\ Exit(1, <<"report", "aborting">>)
    /\ UNCHANGED <<lvars, fs, force, gitignore_patterns, walk_stack, cur_root,
                   cur_files, visited, opened, all_findings, found_secrets,
                   prompted, choice_in, stdin_tty>>

\* line 155: input(...).lower().strip()
Choice(text) == Strip(ToLower(text))

\* lines 155-161: a line is read
Answer ==
    /\ pc = "input"
    /\ \E text \in Inputs :
          /\ choice_in' = [eof |-> FALSE, text |-> text]
          /\ IF Choice(text) = <<"y">>
             THEN Exit(0, <<"continuing">>)
             ELSE Exit(1, <<"aborting">>)
    /\ UNCHANGED <<lvars, fs, force, gitignore_patterns, walk_stack, cur_root,
                   cur_files, visited, opened, all_findings, found_secrets,
                   prompted, stdin_tty>>

\* line 155: standard input is at end of file, input() raises EOFError, and
\* nothing catches it
AnswerEOF ==
    /\ pc = "input"
    /\ choice_in' = [eof |-> TRUE, text |-> <<>>]
    /\ Exit(1, <<"traceback">>)
    /\ UNCHANGED <<lvars, fs, force, gitignore_patterns, walk_stack, cur_root,
                   cur_files, visited, opened, all_findings, found_secrets,
                   prompted, stdin_tty>>

Next ==
    \/ LoadGitignore
    \/ LoadGitignoreRaises
    \/ WalkDir
    \/ SkipScript
    \/ SkipIgnored
    \/ ScanFile
    \/ NoSecrets
    \/ ForceExit
    \/ Prompt
    \/ AbortNoTty
    \/ Answer
    \/ AnswerEOF

Spec == Init /\ [][Next]_vars

(***************************************************************************)
(* The line scanner on its own: a line is read, run through the pattern   *)
(* loop, and the masked line is run through the loop once more.           *)
(***************************************************************************)
MainIdle ==
    /\ fs = [root |-> <<N_w>>, levels |-> <<>>, s_content |-> "clean",
             script_dir |-> <<N_opt>>, gitignore |-> "missing"]
    /\ force = FALSE /\ pc = "idle" /\ gitignore_patterns = <<>>
    /\ walk_stack = <<>> /\ cur_root = <<>> /\ cur_files = <<>>
    /\ visited = {} /\ opened = {} /\ all_findings = <<>>
    /\ found_secrets = FALSE /\ out = <<>> /\ prompted = FALSE
    /\ choice_in = NoInput /\ stdin_tty = FALSE /\ exit_code = -1

InitLine ==
    /\ MainIdle
    /\ original_line \in Lines
    /\ masked_line = <<>> /\ found_types = <<>>
    /\ rescan_types = <<>> /\ rescan_line = <<>>
    /\ lpc = "read"

\* lines 85-91 on original_line
ScanOneLine ==
    /\ lpc = "read"
    /\ LET r == ScanLine(original_line)
       IN  /\ masked_line' = r.masked
           /\ found_types' = r.types
    /\ lpc' = "scanned"
    /\ UNCHANGED <<original_line, rescan_types, rescan_line, mvars>>

\* lines 85-91 on the masked line of a finding
RescanMasked ==
    /\ lpc = "scanned" /\ found_types # <<>>
    /\ LET r == ScanLine(masked_line)
       IN  /\ rescan_line' = r.masked
           /\ rescan_types' = r.types
    /\ lpc' = "rescanned"
    /\ UNCHANGED <<original_line, masked_line, found_types, mvars>>

NextLine == ScanOneLine \/ RescanMasked

SpecLine == InitLine /\ [][NextLine]_vars

(***************************************************************************)
(* Properties of main()                                                   *)
(***************************************************************************)
Last(q) == q[Len(q)]
Has(q, x) == \E i \in 1..Len(q) : q[i] = x

\* the part of a path below scan_dir
Below(f, path) == SubSeq(path, Len(f.root) + 1, Len(path))

\* one of the first n names of rel is "build"
HasBuild(rel, n) == \E k \in 1..n : rel[k] = N_build

\* the directories of the tree
RECURSIVE RelDirs(_)
RelDirs(n) ==
    IF n = 0 THEN {<<>>}
    ELSE RelDirs(n - 1) \cup {Append(r, d) : r \in RelDirs(n - 1), d \in DirNames}

AllDirs(f) == {d \in {f.root \o r : r \in RelDirs(Len(f.levels))} : IsDir(f, d)}

\* C1: with --force, every run of main() that has ended ended with exit code 0.
C1_ForceExitsZero == (pc = "done" /\ force) => exit_code = 0

\* C2: with findings, without --force and with a standard input that is not
\* interactive, main() never reads a confirmation, and when it has ended it has
\* printed the report and the abort notice and its exit code is 1.
C2_NonInteractiveAborts ==
    (found_secrets /\ ~force /\ ~stdin_tty) =>
        /\ ~prompted
        /\ pc # "input"
        /\ pc = "done" => /\ exit_code = 1
                          /\ Has(out, "report")
                          /\ Last(out) = "aborting"

C2_Witness ==
    /\ pc = "done" /\ found_secrets /\ ~force /\ ~stdin_tty
    /\ exit_code = 1 /\ Last(out) = "aborting"

\* C3: after the prompt, the run ends with exit code 0 if and only if the
\* input, compared without regard to case, is exactly "y"; for every other
\* input, the empty line and end of file included, the abort notice is printed
\* and the exit code is 1.
C3_OnlyExactYContinues ==
    (pc = "done" /\ prompted) =>
        LET yes == ~choice_in.eof /\ ToLower(choice_in.text) = <<"y">>
        IN  /\ exit_code = 0 <=> yes
            /\ ~yes => exit_code = 1 /\ Last(out) = "aborting"

\* C7: with the rule "build/", no directory that is or lies beneath a build/
\* of the tree is visited, no file beneath one is opened or reported, and once
\* the walk is over every builder/ that does not lie beneath a build/ has been
\* visited and its regular files (other than the scanner itself, and other
\* than one that bears the name build) have been scanned.
C7_BuildPrunedBuilderScanned ==
    fs.gitignore = "build" =>
        /\ \A d \in visited : ~HasBuild(Below(fs, d), Len(Below(fs, d)))
        /\ \A p \in opened : ~HasBuild(Below(fs, p), Len(Below(fs, p)) - 1)
        /\ \A i \in 1..Len(all_findings) :
               LET rel == Below(fs, all_findings[i].file_path)
               IN  ~HasBuild(rel, Len(rel) - 1)
        /\ pc = "done" =>
               \A d \in AllDirs(fs) :
                   (Last(d) = N_builder /\ ~HasBuild(Below(fs, d), Len(Below(fs, d)))) =>
                       /\ d \in visited
                       /\ \A k \in 1..Len(FileNames(fs, d)) :
                              LET name == FileNames(fs, d)[k]
                                  path == Append(d, name)
                              IN  (/\ FileAt(fs, path).regular
                                   /\ name # N_build
                                   /\ path # ScriptPath(fs)) => path \in opened

\* C8: when .gitignore is missing, or exists but cannot be read, there are no
\* rules, the scan goes on over the tree, and the run ends as the findings
\* decide: no traceback, and exit code 1 only after the abort notice.
C8_IgnoreFileFailsSoft ==
    (fs.gitignore \in {"missing", "unreadable"} /\ pc # "start") =>
        /\ gitignore_patterns = <<>>
        /\ Head(out) = "scanning"
        /\ ~Has(out, "traceback") \/ prompted
        /\ pc = "done" => fs.root \in visited

\* C9: a file that cannot be opened, or that does not decode as text, has no
\* entry in all_findings, also when lines read before the bad bytes matched.
C9_UndecodableFileSkipped ==
    \A i \in 1..Len(all_findings) :
        LET file == FileAt(fs, all_findings[i].file_path)
        IN  file.openable /\ file.good_lines = -1

\* C10: the scanner's own file is never handed to scan_file and never appears
\* in all_findings, whatever the scan root and the ignore rules.
C10_ScriptNeverScanned ==
    /\ ScriptPath(fs) \notin opened
    /\ \A i \in 1..Len(all_findings) : all_findings[i].file_path # ScriptPath(fs)

\* the scanner lies in a directory the walk went through, no rule ignores
\* it, and the walk is over
C10_Witness ==
    /\ pc = "done"
    /\ fs.script_dir \in visited
    /\ ~is_ignored(ScriptPath(fs), gitignore_patterns)
    /\ opened # {}

(***************************************************************************)
(* Properties of the line scanner                                         *)
(***************************************************************************)
\* the secrets the pattern loop replaces, from pattern number k on
RECURSIVE CapturedLoop(_, _)
CapturedLoop(k, masked) ==
    IF k > Len(SECRET_PATTERNS) THEN {}
    ELSE LET kind == SECRET_PATTERNS[k]
         IN  IF Search(kind, masked)
             THEN CapturedFrom(kind, masked, 1) \cup CapturedLoop(k + 1, Sub(kind, masked))
             ELSE CapturedLoop(k + 1, masked)

\* C4: the masked line of a finding holds none of the secrets the patterns
\* captured on that line.
C4_MaskedLineHidesSecrets ==
    lpc = "scanned" =>
        \A x \in CapturedLoop(1, Strip(original_line)) : ~Contains(masked_line, x)

\* C5: every pattern whose shape occurs in the trimmed line is among the kinds
\* reported for the line.
C5_DetectionComplete ==
    lpc = "scanned" =>
        \A k \in 1..Len(SECRET_PATTERNS) :
            Search(SECRET_PATTERNS[k], Strip(original_line))
                => Has(found_types, SECRET_PATTERNS[k])

\* C6: scanning the masked line of a finding again reports none of the kinds
\* that were found on the line.
C6_MaskingIdempotent ==
    lpc = "rescanned" => Range(rescan_types) \cap Range(found_types) = {}

====
